---- MODULE Spec2Model ----
(***************************************************************************)
(* The turn engine of codenames/game.py: Game.__init__, Game._accept_guess *)
(* and Game.run, with the four role objects (two codemasters, two          *)
(* guessers) as the environment that supplies clues, answers and           *)
(* keep_guessing decisions.                                                *)
(*                                                                         *)
(* Board cells are indexed 0..24 as in the source.  words_in_play in run() *)
(* is the very list object self.words_on_board (get_words_on_board returns *)
(* it without copying), so both are the one variable words_on_board.       *)
(***************************************************************************)
EXTENDS Integers, Sequences, FiniteSets, TLC

\* ------------------------------------------------------------- bounds
\* run() has no bound on the number of clues (turn_counter); the model stops
\* asking for clues once MaxTurns of them have been given.
MaxTurns == 2
\* number of key-grid shuffles Init chooses from.
NumShuffles == 2

\* ------------------------------------------------------- program constants
num_red_words == 9
num_blue_words == 8
num_civilian_words == 7
num_assassin_words == 1
\* temp[:25]: the number of board cells.
BoardSize == 25

Cells == 0 .. (BoardSize - 1)

Categories == {"Red", "Blue", "Civilian", "Assassin"}

\* The revealed marker _accept_guess writes for a category.
Marker(cat) == "*" \o cat \o "*"

Markers == {Marker(c) : c \in Categories}

\* GameCondition
RED_TURN == "RED_TURN"
BLUE_TURN == "BLUE_TURN"
RED_WIN == "RED_WIN"
BLUE_WIN == "BLUE_WIN"
GameCondition == {RED_TURN, BLUE_TURN, RED_WIN, BLUE_WIN}

\* The 25 distinct upper-case words drawn from the word pool (temp[:25]); the
\* pool file is not part of the engine, so the words are stand-ins.
WordPool ==
    [i \in Cells |-> "WORD" \o ToString(i)]

\* The key grid before random.shuffle: 9 Red, 8 Blue, 7 Civilian, 1 Assassin.
UnshuffledKey ==
    [i \in Cells |->
        IF i < num_red_words THEN "Red"
        ELSE IF i < num_red_words + num_blue_words THEN "Blue"
        ELSE IF i < num_red_words + num_blue_words + num_civilian_words THEN "Civilian"
        ELSE "Assassin"]

\* random.shuffle(self.key_grid): a permutation of the unshuffled grid.  The
\* model draws from NumShuffles of them: cell i gets the entry at
\* (7*s*i + 3*s) mod 25 for s = 1.., a bijection of 0..24 whenever 7*s is
\* coprime to 25, and the identity for s = 0.
Shuffle(s) ==
    [i \in Cells |->
        UnshuffledKey[IF s % 5 = 0 THEN (i + s) % BoardSize
                      ELSE (7 * s * i + 3 * s) % BoardSize]]

KeyGrids == {Shuffle(s) : s \in 0 .. (NumShuffles - 1)}

\* list.count(x)
Count(board, x) == Cardinality({i \in Cells : board[i] = x})

\* The exception list.index raises when the value is not in the list.
ValueError == "ValueError"

\* list.index(x): the first index holding x; Python raises ValueError when
\* there is none, modelled as -1.
Index(board, x) ==
    IF \E i \in Cells : board[i] = x
    THEN CHOOSE i \in Cells : board[i] = x /\ \A j \in Cells : board[j] = x => i <= j
    ELSE -1

\* ------------------------------------------------------------ the roles
\* Codemaster.get_clue() returns (clue, clue_num).  Neither the text nor the
\* count is read by the engine after it is recorded and handed to the
\* guesser, so one text and one count stand for all.
Clues == {"HINT"}
ClueNums == {1}

\* The two answers by which a guesser declines to guess (Python's None is the
\* string "None" here).
NoGuess == {"None", "no comparisons"}

\* A guesser may write a board word in another case or with blanks around it:
\* run() normalises the answer with .upper().strip().  AnswerForms are the two
\* ways the guessers of the model write a word; FormOf fixes which cell's word
\* is written which way, so that every game meets both.
AnswerForms == {"exact", "lower_padded"}

FormOf(i) == IF i % 2 = 0 THEN "exact" ELSE "lower_padded"

Written(i, form) ==
    IF form = "exact" THEN WordPool[i] ELSE " word" \o ToString(i) \o " "

\* guess_answer.upper().strip() on the strings of the model: every written
\* form of a board word becomes the board word; any other string (a marker
\* such as "*Red*" becomes "*RED*") is not a string the board ever holds.
UpperStrip(s) ==
    IF \E i \in Cells : \E f \in AnswerForms : Written(i, f) = s
    THEN WordPool[CHOOSE i \in Cells : \E f \in AnswerForms : Written(i, f) = s]
    ELSE "NOT_ON_BOARD"

Unrevealed(board) == {i \in Cells : board[i] \notin Markers}

\* Guesser.get_answer() of a guesser that keeps to its interface: an
\* unrevealed board word or a no-guess answer.  Cells of one category are
\* interchangeable to the engine, so the guesser picks, per category, the
\* unrevealed cell of lowest index.
GuessCells(board, key) ==
    {i \in Unrevealed(board) :
        \A j \in Unrevealed(board) : key[j] = key[i] => i <= j}

Answers(board, key) ==
    NoGuess \cup {Written(i, FormOf(i)) : i \in GuessCells(board, key)}

\* Guesser.get_answer() of a guesser that breaks its interface: a word that
\* is not on the board, the word of a revealed cell, or the marker a revealed
\* cell shows (of the revealed cells, the one of lowest index).
RevealedCells(board) ==
    {i \in Cells \ Unrevealed(board) : \A j \in Cells \ Unrevealed(board) : i <= j}

BadAnswers(board) ==
    {"ZEBRA"}
        \cup {Written(i, FormOf(i)) : i \in RevealedCells(board)}
        \cup {board[i] : i \in RevealedCells(board)}

VARIABLES
    words_on_board,    \* self.words_on_board
    key_grid,          \* self.key_grid
    move_history,      \* self.move_history
    single_team,       \* self.single_team
    game_winner,       \* self.game_winner ("None" until run() assigns it)
    game_condition,    \* run(): game_condition
    turn_counter,      \* run(): turn_counter
    current_team,      \* run(): current_team ("None" before the first turn)
    clue,              \* run(): clue
    clue_num,          \* run(): clue_num
    keep_guessing,     \* run(): keep_guessing
    guess_answer,      \* run(): guess_answer
    guess_answer_index,\* run(): guess_answer_index
    raised,            \* the exception that ended run() ("None": none)
    pc                 \* where run() is: "turn", "guess", "keep", "done", or
                       \* "error" once an exception has left it

vars == <<words_on_board, key_grid, move_history, single_team, game_winner,
          game_condition, turn_counter, current_team, clue, clue_num,
          keep_guessing, guess_answer, guess_answer_index, raised, pc>>

\* Game.__init__ followed by the first lines of run().
Init ==
    /\ words_on_board = WordPool
    /\ key_grid \in KeyGrids
    /\ move_history = <<>>
    /\ single_team \in BOOLEAN
    /\ game_winner = "None"
    /\ game_condition = RED_TURN
    /\ turn_counter = 0
    /\ current_team = "None"
    /\ clue = "None"
    /\ clue_num = 0
    /\ keep_guessing = FALSE
    /\ guess_answer = "None"
    /\ guess_answer_index = -1
    /\ raised = "None"
    /\ pc = "turn"

\* ------------------------------------------------------------ the engine
\* The quota of a category (num_red_words, ...).
Quota(cat) ==
    IF cat = "Red" THEN num_red_words
    ELSE IF cat = "Blue" THEN num_blue_words
    ELSE IF cat = "Civilian" THEN num_civilian_words
    ELSE num_assassin_words

\* _accept_guess with > for >= in the two quota tests.
accept_guess_strict_quota(guess_index, cond, board, key) ==
    IF key[guess_index] = "Red" THEN
        LET b == [board EXCEPT ![guess_index] = "*Red*"] IN
        [board |-> b,
         result |-> IF Count(b, "*Red*") > num_red_words THEN RED_WIN ELSE RED_TURN]
    ELSE IF key[guess_index] = "Blue" THEN
        LET b == [board EXCEPT ![guess_index] = "*Blue*"] IN
        [board |-> b,
         result |-> IF Count(b, "*Blue*") > num_blue_words THEN BLUE_WIN ELSE BLUE_TURN]
    ELSE IF key[guess_index] = "Assassin" THEN
        [board |-> [board EXCEPT ![guess_index] = "*Assassin*"],
         result |-> IF cond = RED_TURN THEN BLUE_WIN ELSE RED_WIN]
    ELSE
        [board |-> [board EXCEPT ![guess_index] = "*Civilian*"],
         result |-> IF cond = RED_TURN THEN BLUE_TURN ELSE RED_TURN]

\* _accept_guess returning the phase it was given after a Red or Blue reveal
\* that does not complete the quota.
accept_guess_same_turn(guess_index, cond, board, key) ==
    IF key[guess_index] = "Red" THEN
        LET b == [board EXCEPT ![guess_index] = "*Red*"] IN
        [board |-> b,
         result |-> IF Count(b, "*Red*") >= num_red_words THEN RED_WIN ELSE cond]
    ELSE IF key[guess_index] = "Blue" THEN
        LET b == [board EXCEPT ![guess_index] = "*Blue*"] IN
        [board |-> b,
         result |-> IF Count(b, "*Blue*") >= num_blue_words THEN BLUE_WIN ELSE cond]
    ELSE IF key[guess_index] = "Assassin" THEN
        [board |-> [board EXCEPT ![guess_index] = "*Assassin*"],
         result |-> IF cond = RED_TURN THEN BLUE_WIN ELSE RED_WIN]
    ELSE
        [board |-> [board EXCEPT ![guess_index] = "*Civilian*"],
         result |-> IF cond = RED_TURN THEN BLUE_TURN ELSE RED_TURN]

\* _accept_guess with the two results of the Civilian branch exchanged.
accept_guess_civilian_swapped(guess_index, cond, board, key) ==
    IF key[guess_index] = "Red" THEN
        LET b == [board EXCEPT ![guess_index] = "*Red*"] IN
        [board |-> b,
         result |-> IF Count(b, "*Red*") >= num_red_words THEN RED_WIN ELSE RED_TURN]
    ELSE IF key[guess_index] = "Blue" THEN
        LET b == [board EXCEPT ![guess_index] = "*Blue*"] IN
        [board |-> b,
         result |-> IF Count(b, "*Blue*") >= num_blue_words THEN BLUE_WIN ELSE BLUE_TURN]
    ELSE IF key[guess_index] = "Assassin" THEN
        [board |-> [board EXCEPT ![guess_index] = "*Assassin*"],
         result |-> IF cond = RED_TURN THEN BLUE_WIN ELSE RED_WIN]
    ELSE
        [board |-> [board EXCEPT ![guess_index] = "*Civilian*"],
         result |-> IF cond = RED_TURN THEN RED_TURN ELSE BLUE_TURN]

\* _accept_guess with the Civilian branch leaving the board as it is.
accept_guess_civilian_unmarked(guess_index, cond, board, key) ==
    IF key[guess_index] = "Red" THEN
        LET b == [board EXCEPT ![guess_index] = "*Red*"] IN
        [board |-> b,
         result |-> IF Count(b, "*Red*") >= num_red_words THEN RED_WIN ELSE RED_TURN]
    ELSE IF key[guess_index] = "Blue" THEN
        LET b == [board EXCEPT ![guess_index] = "*Blue*"] IN
        [board |-> b,
         result |-> IF Count(b, "*Blue*") >= num_blue_words THEN BLUE_WIN ELSE BLUE_TURN]
    ELSE IF key[guess_index] = "Assassin" THEN
        [board |-> [board EXCEPT ![guess_index] = "*Assassin*"],
         result |-> IF cond = RED_TURN THEN BLUE_WIN ELSE RED_WIN]
    ELSE
        [board |-> board,
         result |-> IF cond = RED_TURN THEN BLUE_TURN ELSE RED_TURN]

\* _accept_guess with the Blue branch writing the Red marker.
accept_guess_red_marker(guess_index, cond, board, key) ==
    IF key[guess_index] = "Red" \/ key[guess_index] = "Blue" THEN
        LET b == [board EXCEPT ![guess_index] = "*Red*"] IN
        [board |-> b,
         result |-> IF key[guess_index] = "Red"
                    THEN (IF Count(b, "*Red*") >= num_red_words THEN RED_WIN ELSE RED_TURN)
                    ELSE (IF Count(b, "*Blue*") >= num_blue_words THEN BLUE_WIN ELSE BLUE_TURN)]
    ELSE IF key[guess_index] = "Assassin" THEN
        [board |-> [board EXCEPT ![guess_index] = "*Assassin*"],
         result |-> IF cond = RED_TURN THEN BLUE_WIN ELSE RED_WIN]
    ELSE
        [board |-> [board EXCEPT ![guess_index] = "*Civilian*"],
         result |-> IF cond = RED_TURN THEN BLUE_TURN ELSE RED_TURN]

\* The Assassin cell giving the win to the team that guessed it.
accept_guess_assassin_swapped(guess_index, cond, board, key) ==
    IF key[guess_index] = "Red" THEN
        LET b == [board EXCEPT ![guess_index] = "*Red*"] IN
        [board |-> b,
         result |-> IF Count(b, "*Red*") >= num_red_words THEN RED_WIN ELSE RED_TURN]
    ELSE IF key[guess_index] = "Blue" THEN
        LET b == [board EXCEPT ![guess_index] = "*Blue*"] IN
        [board |-> b,
         result |-> IF Count(b, "*Blue*") >= num_blue_words THEN BLUE_WIN ELSE BLUE_TURN]
    ELSE IF key[guess_index] = "Assassin" THEN
        [board |-> [board EXCEPT ![guess_index] = "*Assassin*"],
         result |-> IF cond = RED_TURN THEN RED_WIN ELSE BLUE_WIN]
    ELSE
        [board |-> [board EXCEPT ![guess_index] = "*Civilian*"],
         result |-> IF cond = RED_TURN THEN BLUE_TURN ELSE RED_TURN]

\* Game._accept_guess(guess_index, game_condition): the board after the
\* reveal and the returned GameCondition.
accept_guess(guess_index, cond, board, key) ==
    IF key[guess_index] = "Red" THEN
        LET b == [board EXCEPT ![guess_index] = "*Red*"] IN
        [board |-> b,
         result |-> IF Count(b, "*Red*") >= num_red_words THEN RED_WIN ELSE RED_TURN]
    ELSE IF key[guess_index] = "Blue" THEN
        LET b == [board EXCEPT ![guess_index] = "*Blue*"] IN
        [board |-> b,
         result |-> IF Count(b, "*Blue*") >= num_blue_words THEN BLUE_WIN ELSE BLUE_TURN]
    ELSE IF key[guess_index] = "Assassin" THEN
        [board |-> [board EXCEPT ![guess_index] = "*Assassin*"],
         result |-> IF cond = RED_TURN THEN BLUE_WIN ELSE RED_WIN]
    ELSE
        [board |-> [board EXCEPT ![guess_index] = "*Civilian*"],
         result |-> IF cond = RED_TURN THEN BLUE_TURN ELSE RED_TURN]

\* The hand-over that leaves the phase as it is.
PassTurn_stays(cond) == cond

\* The hand-over that always gives Blue the turn.
PassTurn_to_blue(cond) ==
    IF cond = RED_TURN \/ cond = BLUE_TURN THEN BLUE_TURN ELSE cond

\* run(), "if not keep_guessing": the turn passes to the other team.
PassTurn(cond) ==
    IF cond = RED_TURN THEN BLUE_TURN
    ELSE IF cond = BLUE_TURN THEN RED_TURN
    ELSE cond

\* The single-team rule left out.
SingleTeamRule_off(single, cond) == cond

\* The single-team rule applied whether or not the game is a single-team game.
SingleTeamRule_always(single, cond) ==
    IF cond = BLUE_TURN THEN RED_TURN ELSE cond

\* The single-team rule taking every phase that favours Blue back to Red's turn.
SingleTeamRule_any_blue(single, cond) ==
    IF single /\ (cond = BLUE_TURN \/ cond = BLUE_WIN) THEN RED_TURN ELSE cond

\* run(), the single-team rule at the end of each guess.
SingleTeamRule(single, cond) ==
    IF single /\ cond = BLUE_TURN THEN RED_TURN ELSE cond

\* The loop test with the BLUE_WIN half missing.
IsWin_red_only(cond) == cond = RED_WIN

\* run(), the test of the outer loop.
IsWin(cond) == cond = BLUE_WIN \/ cond = RED_WIN

\* The no-guess test with the "no comparisons" half missing.
IsNoGuess_none_only(answer) == answer = "None"

\* run(): guess_answer is None or guess_answer == "no comparisons"
IsNoGuess(answer) == answer = "None" \/ answer = "no comparisons"

\* The event put in front of the history instead of behind it.
Record_in_front(history, event) == <<event>> \o history

\* self.move_history.append(event)
Record(history, event) == Append(history, event)

\* The append of run(), and the history left as it is where the model follows
\* the engine with the history off the record (on_record = FALSE).
Log(on_record, history, event) ==
    IF on_record THEN Record(history, event) ELSE history

\* The history entries run() appends.
ClueEvent(team, c, n) == <<team \o "_Codemaster", c, n>>
GuessEvent(team, answer, shown, continued) == <<team \o "_Guesser", answer, shown, continued>>

\* A clue entry has three fields, a guess entry four.
IsClueEvent(e) == Len(e) = 3
IsGuessEvent(e) == Len(e) = 4

\* The guesses on record since the last clue.
TurnGuesses(history) ==
    Cardinality({k \in 1 .. Len(history) :
        /\ IsGuessEvent(history[k])
        /\ \A j \in (k + 1) .. Len(history) : IsGuessEvent(history[j])})

\* The guess loop left once the guesses of the turn reach the clue count
\* plus one, the guess being recorded included.
LoopAgain_within_count(keep) ==
    keep /\ TurnGuesses(move_history) + 1 < clue_num + 1

\* while keep_guessing: the condition of the guess loop reads the guesser's
\* answer and nothing else; the clue count is not part of it.
LoopAgain(keep) == keep

\* Head of the outer loop with the game still on: the team of the phase is
\* selected, its codemaster gives a clue, the clue is recorded and
\* turn_counter becomes count.
GetClueBy(on_record, count) ==
    /\ pc = "turn"
    /\ ~IsWin(game_condition)
    /\ \E c \in Clues : \E n \in ClueNums :
        LET team == IF game_condition = RED_TURN THEN "Red" ELSE "Blue" IN
        /\ current_team' = team
        /\ clue' = c
        /\ clue_num' = n    \* int(clue_num): the counts of the model are integers
        /\ move_history' = Log(on_record, move_history, ClueEvent(team, c, n))
    /\ turn_counter' = count
    /\ keep_guessing' = TRUE
    /\ pc' = "guess"
    /\ UNCHANGED <<words_on_board, key_grid, single_team, game_winner,
                   game_condition, guess_answer, guess_answer_index, raised>>

\* One pass of the inner loop up to the keep_guessing() call or to the end of
\* the pass: get_answer() (an answer out of `answers`), the no-guess break,
\* index(), _accept_guess and, when the phase changed, the recording of the
\* guess.
GetAnswerBy(on_record, answers) ==
    /\ pc = "guess"
    /\ \E ans \in answers :
        /\ guess_answer' = ans
        /\ IF IsNoGuess(ans) THEN
              /\ pc' = "turn"
              /\ UNCHANGED <<words_on_board, move_history, game_condition,
                             keep_guessing, guess_answer_index, raised>>
           ELSE
              \E word \in {UpperStrip(ans)} : \E idx \in {Index(words_on_board, word)} :
              IF idx = -1 THEN
                  \* list.index raises ValueError, which nothing in run() catches
                  /\ pc' = "error"
                  /\ raised' = ValueError
                  /\ UNCHANGED <<words_on_board, move_history, game_condition,
                                 keep_guessing, guess_answer_index>>
              ELSE
                  \E acc \in {accept_guess(idx, game_condition, words_on_board, key_grid)} :
                  /\ guess_answer_index' = idx
                  /\ words_on_board' = acc.board
                  /\ raised' = raised
                  /\ IF game_condition = acc.result THEN
                        /\ pc' = "keep"
                        /\ UNCHANGED <<move_history, game_condition, keep_guessing>>
                     ELSE
                        /\ keep_guessing' = FALSE
                        /\ game_condition' = SingleTeamRule(single_team, acc.result)
                        /\ move_history' = Log(on_record, move_history,
                               GuessEvent(current_team, ans, acc.board[idx], FALSE))
                        /\ pc' = "turn"
    /\ UNCHANGED <<key_grid, single_team, game_winner, turn_counter,
                   current_team, clue, clue_num>>

\* The rest of a pass whose guess left the phase unchanged: keep_guessing(),
\* the recording of the guess, the hand-over when the guesser stops.
KeepGuessingBy(on_record) ==
    /\ pc = "keep"
    /\ \E kg \in BOOLEAN :
        /\ keep_guessing' = kg
        /\ move_history' = Log(on_record, move_history,
               GuessEvent(current_team, guess_answer,
                          words_on_board[guess_answer_index], kg))
        /\ game_condition' =
               SingleTeamRule(single_team,
                   IF kg THEN game_condition ELSE PassTurn(game_condition))
        /\ pc' = IF LoopAgain(kg) THEN "guess" ELSE "turn"
    /\ UNCHANGED <<words_on_board, key_grid, single_team, game_winner,
                   turn_counter, current_team, clue, clue_num, guess_answer,
                   guess_answer_index, raised>>

\* The outer loop ends at a Win phase and the winner is reported.
Finish ==
    /\ pc = "turn"
    /\ IsWin(game_condition)
    /\ game_winner' = IF game_condition = RED_WIN THEN "R" ELSE "B"
    /\ pc' = "done"
    /\ UNCHANGED <<words_on_board, key_grid, move_history, single_team,
                   game_condition, turn_counter, current_team, clue, clue_num,
                   keep_guessing, guess_answer, guess_answer_index, raised>>

\* The engine with the history on record; guessers of any kind; no clue is
\* asked for once MaxTurns clues have been given.
GetClue ==
    /\ turn_counter < MaxTurns
    /\ GetClueBy(TRUE, turn_counter + 1)

GetAnswer ==
    GetAnswerBy(TRUE, Answers(words_on_board, key_grid) \cup BadAnswers(words_on_board))

KeepGuessing == KeepGuessingBy(TRUE)

Next ==
    \/ GetClue
    \/ GetAnswer
    \/ KeepGuessing
    \/ Finish

Spec == Init /\ [][Next]_vars

\* ------------------------------------------------ the engine, whole games
\* The engine never reads move_history or turn_counter to decide a step, so
\* whole games, and games that never end, are followed with the history off
\* the record and the turn count stopping at MaxTurns.  The guessers keep to
\* their interface; run() is one sequential loop whose role calls return, so
\* it takes a step whenever it can (weak fairness of the next-state relation).
LiveGetClue ==
    GetClueBy(FALSE, IF turn_counter < MaxTurns THEN turn_counter + 1 ELSE turn_counter)

LiveGetAnswer == GetAnswerBy(FALSE, Answers(words_on_board, key_grid))

LiveKeepGuessing == KeepGuessingBy(FALSE)

LiveNext ==
    \/ LiveGetClue
    \/ LiveGetAnswer
    \/ LiveKeepGuessing
    \/ Finish

LiveSpec == Init /\ [][LiveNext]_vars /\ WF_vars(LiveNext)

\* The engine followed over whole games with every clue counted
\* (turn_counter += 1, line 324) and the history off the record, with guessers
\* that keep to the Guesser interface and never give a no-guess answer.
CountGetClue == GetClueBy(FALSE, turn_counter + 1)

CountGetAnswer ==
    GetAnswerBy(FALSE, Answers(words_on_board, key_grid) \ NoGuess)

CountKeepGuessing == KeepGuessingBy(FALSE)

CountNext ==
    \/ CountGetClue
    \/ CountGetAnswer
    \/ CountKeepGuessing
    \/ Finish

CountSpec == Init /\ [][CountNext]_vars /\ WF_vars(CountNext)

TypeOK ==
    /\ words_on_board \in [Cells -> {WordPool[i] : i \in Cells} \cup Markers]
    /\ key_grid \in KeyGrids
    /\ single_team \in BOOLEAN
    /\ game_winner \in {"None", "R", "B"}
    /\ game_condition \in GameCondition
    /\ turn_counter \in 0 .. MaxTurns
    /\ current_team \in {"None", "Red", "Blue"}
    /\ keep_guessing \in BOOLEAN
    /\ guess_answer_index \in Cells \cup {-1}
    /\ pc \in {"turn", "guess", "keep", "done", "error"}
    /\ raised \in {"None", ValueError}
    /\ \A k \in 1 .. Len(move_history) : Len(move_history[k]) \in {3, 4}

\* ------------------------------------------------------------ properties
Shown(cat) == Count(words_on_board, Marker(cat))

WinPhases == {RED_WIN, BLUE_WIN}

WinOf(team) == IF team = "Red" THEN RED_WIN ELSE BLUE_WIN
TurnOf(team) == IF team = "Red" THEN RED_TURN ELSE BLUE_TURN
Other(team) == IF team = "Red" THEN "Blue" ELSE "Red"

\* C1: in every reachable state, for each of the four categories, the number
\* of cells showing that category's marker is at most the category's quota
\* (9 Red, 8 Blue, 7 Civilian, 1 Assassin).
C1_RevealedWithinQuota ==
    \A cat \in Categories : Shown(cat) <= Quota(cat)

\* A finished game in which every Red cell is revealed and a cell of another
\* category as well.
C1_Witness ==
    /\ pc = "done"
    /\ Shown("Red") = num_red_words
    /\ Shown("Blue") + Shown("Civilian") >= 1

\* C2: once the phase is RED_WIN or BLUE_WIN, run() is at the head of the outer
\* loop or finished, and the only step left reports the winner: no clue or
\* answer is asked for, no cell changes, the history gets no entry and the
\* phase stays what it is.
C2_WinIsTerminal ==
    [][(game_condition \in WinPhases =>
         /\ pc \in {"turn", "done"}
         /\ pc' = "done"
         /\ game_condition' = game_condition
         /\ words_on_board' = words_on_board
         /\ move_history' = move_history
         /\ turn_counter' = turn_counter)]_vars

\* A single-team game that ended with BLUE_WIN and reported Blue as winner.
C2_Witness ==
    /\ single_team
    /\ game_condition = BLUE_WIN
    /\ pc = "done"
    /\ game_winner = "B"

\* C3: a step that reveals the Assassin cell sets the phase to the Win phase of
\* the team that did not guess (Red guessed: BLUE_WIN, Blue guessed: RED_WIN),
\* in single-team games too, and does not go on to keep_guessing; and while the
\* Assassin cell is revealed the phase is a Win phase and run() is past the
\* guess loop, so that no further guess is accepted.
C3_AssassinEndsGame ==
    [][(/\ (Count(words_on_board', "*Assassin*") > Count(words_on_board, "*Assassin*")) =>
            /\ game_condition' = WinOf(Other(current_team))
            /\ pc' = "turn"
        /\ (Count(words_on_board', "*Assassin*") > 0) =>
            /\ game_condition' \in WinPhases
            /\ pc' \in {"turn", "done"})]_vars

\* Red revealed the Assassin cell in a single-team game, which Blue won.
C3_Witness ==
    /\ single_team
    /\ Shown("Assassin") = 1
    /\ current_team = "Red"
    /\ game_condition = BLUE_WIN
    /\ game_winner = "B"

LastEntry(history) == history[Len(history)]

\* The phase the engine hands to the team other than `team` when the game goes
\* on: that team's Turn, and Red's Turn in a single-team game.
HandOver(team) == IF single_team THEN RED_TURN ELSE TurnOf(Other(team))

\* C4: a step in which the guessing team reveals a cell of its own category
\* either completes the team's quota, and then the phase becomes that team's
\* Win phase and the guess loop is over, or leaves the phase the team's Turn
\* and goes on to ask the guesser whether to guess again.
C4_OwnReveal ==
    [][((Count(words_on_board', Marker(current_team)) > Count(words_on_board, Marker(current_team))) =>
          IF Count(words_on_board', Marker(current_team)) >= Quota(current_team)
          THEN /\ game_condition' = WinOf(current_team)
               /\ pc' = "turn"
          ELSE /\ game_condition' = game_condition
               /\ game_condition' = TurnOf(current_team)
               /\ pc' = "keep")]_vars

\* Red revealed its nine words under one clue, continuing after each of the
\* first eight, and the phase is RED_WIN.
C4_Witness ==
    /\ turn_counter = 1
    /\ Len(move_history) = 1 + num_red_words
    /\ \A k \in 2 .. num_red_words :
          move_history[k] = GuessEvent("Red", move_history[k][2], "*Red*", TRUE)
    /\ LastEntry(move_history)[3] = "*Red*"
    /\ game_condition = RED_WIN

\* C5: a step in which the guessing team reveals a cell of the other team's
\* category makes the phase the other team's Win phase when that completes the
\* other team's quota and otherwise hands the turn over (to the other team, to
\* Red in a single-team game); either way the guess loop is over without a
\* keep_guessing call and the guess is recorded with continued = FALSE.
C5_OtherTeamReveal ==
    [][((Count(words_on_board', Marker(Other(current_team)))
            > Count(words_on_board, Marker(Other(current_team)))) =>
          /\ game_condition' =
                IF Count(words_on_board', Marker(Other(current_team))) >= Quota(Other(current_team))
                THEN WinOf(Other(current_team))
                ELSE HandOver(current_team)
          /\ pc' = "turn"
          /\ move_history' = Append(move_history,
                GuessEvent(current_team, guess_answer', Marker(Other(current_team)), FALSE)))]_vars

\* Blue revealed the last Red word and so handed Red the win.
C5_Witness ==
    /\ ~single_team
    /\ current_team = "Blue"
    /\ game_condition = RED_WIN
    /\ Shown("Red") = num_red_words
    /\ Len(move_history) > 0
    /\ LastEntry(move_history) = GuessEvent("Blue", guess_answer, "*Red*", FALSE)

\* C6: a step that reveals a Civilian cell hands the turn over (to the other
\* team, to Red in a single-team game) and never gives a Win phase; the guess
\* loop is over without a keep_guessing call and the guess is recorded with
\* continued = FALSE.
C6_CivilianReveal ==
    [][((Count(words_on_board', "*Civilian*") > Count(words_on_board, "*Civilian*")) =>
          /\ game_condition' \notin WinPhases
          /\ game_condition' = HandOver(current_team)
          /\ pc' = "turn"
          /\ move_history' = Append(move_history,
                GuessEvent(current_team, guess_answer', "*Civilian*", FALSE)))]_vars

\* Blue revealed a Civilian cell in a two-team game and the turn went to Red.
C6_Witness ==
    /\ ~single_team
    /\ current_team = "Blue"
    /\ game_condition = RED_TURN
    /\ pc = "turn"
    /\ Len(move_history) > 0
    /\ LastEntry(move_history) = GuessEvent("Blue", guess_answer, "*Civilian*", FALSE)

IsPrefix(h1, h2) ==
    /\ Len(h1) <= Len(h2)
    /\ \A k \in 1 .. Len(h1) : h1[k] = h2[k]

\* The number of guesses _accept_guess has accepted: every accepted guess of
\* a guesser that keeps to its interface reveals one more cell.
Accepted(board) == Cardinality({i \in Cells : board[i] \in Markers})

\* C7 as claimed: in every state the history has exactly as many entries as
\* clues obtained (turn_counter) plus guesses accepted by _accept_guess.
C7_LengthIsCluesPlusGuesses ==
    Len(move_history) = turn_counter + Accepted(words_on_board)

\* C7, amended: the history only grows at its end (the history before a step
\* is a prefix of the history after it), a clue step appends that clue and a
\* step that records a guess appends that guess; the history has exactly
\* turn_counter + (accepted guesses) entries except during the keep_guessing
\* call, where the guess just accepted is not yet on record and the history is
\* one entry short.
C7_HistoryAppendOnly ==
    [][(/\ IsPrefix(move_history, move_history')
        /\ Len(move_history') <= Len(move_history) + 1
        /\ (turn_counter' # turn_counter) =>
              /\ Len(move_history') = Len(move_history) + 1
              /\ LastEntry(move_history') = ClueEvent(current_team', clue', clue_num')
        /\ (Len(move_history') = Len(move_history) + 1 /\ turn_counter' = turn_counter) =>
              LastEntry(move_history') =
                  GuessEvent(current_team, guess_answer',
                             Marker(key_grid[guess_answer_index']), keep_guessing')
        /\ (pc' # "keep") =>
              Len(move_history') = turn_counter' + Accepted(words_on_board')
        /\ (pc' = "keep") =>
              Len(move_history') + 1 = turn_counter' + Accepted(words_on_board'))]_vars

\* Two clues and several guesses are on record and the run is over.
C7_Witness ==
    /\ pc = "done"
    /\ turn_counter = 2
    /\ Accepted(words_on_board) >= 3
    /\ Len(move_history) = turn_counter + Accepted(words_on_board)

\* C8: keep_guessing is asked exactly after an own-team reveal that does not
\* complete the quota and after no other guess; the question is asked once;
\* on FALSE the phase is handed over (to the other team, to Red in a
\* single-team game) and run() is back at the head of the outer loop, where
\* the next event is a clue; on TRUE the same guesser answers again under the
\* same clue, with the phase as it was.
C8_KeepGuessingProtocol ==
    [][(/\ (pc' = "keep") <=>
              /\ pc = "guess"
              /\ Count(words_on_board', Marker(current_team))
                    > Count(words_on_board, Marker(current_team))
              /\ Count(words_on_board', Marker(current_team)) < Quota(current_team)
        /\ (pc' = "keep") => (game_condition' = game_condition /\ move_history' = move_history)
        /\ (pc = "keep" /\ keep_guessing') =>
              /\ pc' = "guess"
              /\ game_condition' = game_condition
              /\ current_team' = current_team
              /\ clue' = clue
              /\ turn_counter' = turn_counter
        /\ (pc = "keep" /\ ~keep_guessing') =>
              /\ pc' = "turn"
              /\ game_condition' = HandOver(current_team))]_vars

\* Blue's guesser revealed a Blue word, was asked and stopped; it is Red's turn.
C8_Witness ==
    /\ ~single_team
    /\ pc = "turn"
    /\ current_team = "Blue"
    /\ game_condition = RED_TURN
    /\ ~keep_guessing
    /\ Len(move_history) > 0
    /\ LastEntry(move_history) = GuessEvent("Blue", guess_answer, "*Blue*", FALSE)

\* C9: a get_answer step that returns None or "no comparisons" ends the guess
\* loop of the clue at once: run() is back at the head of the outer loop
\* without a keep_guessing call, no cell is revealed, the history is what it
\* was, and the phase is unchanged.
C9_NoGuessEndsLoop ==
    [][((pc = "guess" /\ pc' # "guess" /\ guess_answer' \in {"None", "no comparisons"}) =>
          /\ pc' = "turn"
          /\ words_on_board' = words_on_board
          /\ move_history' = move_history
          /\ game_condition' = game_condition)]_vars

\* After a continued Red guess the guesser answered "no comparisons": the
\* guess loop is over and the last entry is still that continued guess.
C9_Witness ==
    /\ pc = "turn"
    /\ guess_answer = "no comparisons"
    /\ keep_guessing
    /\ Len(move_history) = 2
    /\ IsGuessEvent(LastEntry(move_history))
    /\ LastEntry(move_history)[4] = TRUE

\* Positions i < j of two clue events with no clue event between them.
SuccessiveClues(history) ==
    {p \in (1 .. Len(history)) \X (1 .. Len(history)) :
        /\ p[1] < p[2]
        /\ IsClueEvent(history[p[1]])
        /\ IsClueEvent(history[p[2]])
        /\ \A k \in (p[1] + 1) .. (p[2] - 1) : ~IsClueEvent(history[k])}

\* The entry before position j is a guess recorded with continued = FALSE.
EndedByGuess(history, j) ==
    /\ IsGuessEvent(history[j - 1])
    /\ history[j - 1][4] = FALSE

\* C10 as claimed: in a two-team game any two successive clue events are of
\* different teams.
C10_StrictAlternation ==
    ~single_team =>
        \A p \in SuccessiveClues(move_history) :
            move_history[p[1]][1] # move_history[p[2]][1]

\* C10, amended: in a two-team game two successive clue events are of
\* different teams exactly when the guess loop between them ended with a guess
\* recorded with continued = FALSE; when it ended with a no-guess answer (no
\* guess on record since the clue, or the last one recorded with continued =
\* TRUE) the same team gives the next clue.
C10_AlternationUnlessNoGuess ==
    ~single_team =>
        \A p \in SuccessiveClues(move_history) :
            (move_history[p[1]][1] # move_history[p[2]][1])
                <=> EndedByGuess(move_history, p[2])

\* A two-team game with a Red clue, a guess that ended Red's turn, and a Blue
\* clue after it.
C10_Witness ==
    /\ ~single_team
    /\ Len(move_history) >= 3
    /\ move_history[1][1] = "Red_Codemaster"
    /\ IsClueEvent(LastEntry(move_history))
    /\ LastEntry(move_history)[1] = "Blue_Codemaster"
    /\ EndedByGuess(move_history, Len(move_history))

\* C11: in a single-team game the phase is never BLUE_TURN (at the head of the
\* outer loop in particular), the team selected for a turn is never Blue, so
\* that neither Blue's codemaster nor Blue's guesser is ever called, and every
\* entry of the history is Red's.
C11_SingleTeamOnlyRed ==
    single_team =>
        /\ game_condition # BLUE_TURN
        /\ current_team # "Blue"
        /\ \A k \in 1 .. Len(move_history) :
              move_history[k][1] \in {"Red_Codemaster", "Red_Guesser"}

\* A single-team game in which Red revealed a Blue or Civilian cell, which in
\* a two-team game gives Blue the turn, and the next clue is Red's.
C11_Witness ==
    /\ single_team
    /\ Len(move_history) >= 3
    /\ IsClueEvent(LastEntry(move_history))
    /\ LastEntry(move_history)[1] = "Red_Codemaster"
    /\ EndedByGuess(move_history, Len(move_history))
    /\ move_history[Len(move_history) - 1][3] \in {"*Blue*", "*Civilian*"}

\* The answers the Guesser interface allows on a board: a no-guess answer or
\* an unrevealed word of the board, in any written form.
Conforming(board) ==
    NoGuess \cup {Written(i, f) : i \in Unrevealed(board), f \in AnswerForms}

\* A get_answer step whose answer the interface does not allow.
BadAnswerStep ==
    /\ pc = "guess"
    /\ pc' # "guess"
    /\ guess_answer' \notin Conforming(words_on_board)

\* C12 as claimed: an answer that is neither a no-guess answer nor an
\* unrevealed board word is rejected with InvalidGuessError at that point: the
\* run ends without a winner and board, phase and history stay as they were.
C12_RejectedWithInvalidGuessError ==
    [][(BadAnswerStep =>
          /\ pc' = "error"
          /\ raised' = "InvalidGuessError"
          /\ game_winner' = "None"
          /\ words_on_board' = words_on_board
          /\ game_condition' = game_condition
          /\ move_history' = move_history)]_vars

\* What the code does on such an answer: list.index raises ValueError, the run
\* ends there without a winner, nothing of board, phase and history changes,
\* and no step follows.
C12_RejectedByValueError ==
    [][(/\ pc # "error"
        /\ BadAnswerStep =>
              /\ pc' = "error"
              /\ raised' = ValueError
              /\ game_winner' = "None"
              /\ words_on_board' = words_on_board
              /\ game_condition' = game_condition
              /\ move_history' = move_history)]_vars

\* The word of an already revealed cell was answered and the run ended with
\* the exception.
C12_Witness ==
    /\ pc = "error"
    /\ raised = ValueError
    /\ \E i \in Cells \ Unrevealed(words_on_board) : UpperStrip(guess_answer) = WordPool[i]

\* run() has reported a winner.
WinnerReported ==
    /\ pc = "done"
    /\ game_condition \in WinPhases
    /\ game_winner = (IF game_condition = RED_WIN THEN "R" ELSE "B")

\* run() has just left the guess loop by the no-guess break: it is at the head
\* of the outer loop with keep_guessing still True.
Declined == pc = "turn" /\ keep_guessing

\* C13 as claimed: with guessers that keep to their interface, run()
\* eventually reaches a Win phase and reports a winner.
C13_EventuallyWinner == <>WinnerReported

\* C13, amended: with guessers that keep to their interface and give a
\* no-guess answer only finitely many times, run() eventually reaches a Win
\* phase and reports a winner.
C13_WinnerUnlessDecliningForever ==
    (<>[](~Declined)) => <>WinnerReported

\* A game that went on after a no-guess answer and was won.
C13_Witness ==
    /\ WinnerReported
    /\ turn_counter >= 2
    /\ Accepted(words_on_board) >= 10

\* C14 as claimed: in a single-team game a step that reveals the Assassin
\* cell leaves the phase RED_TURN (BLUE_WIN forced back) and the game goes on.
C14_AssassinForcedBackToRed ==
    [][((single_team /\ Count(words_on_board', "*Assassin*") > Count(words_on_board, "*Assassin*")) =>
          /\ game_condition' = RED_TURN
          /\ pc' = "turn")]_vars

\* C14, amended: in a single-team game the rule rewrites BLUE_TURN only; a
\* step that reveals the Assassin cell makes the phase BLUE_WIN, the phase
\* stays BLUE_WIN from then on, and the only step left reports Blue as winner.
C14_AssassinIsBlueWin ==
    [][(/\ (single_team /\ Count(words_on_board', "*Assassin*") > Count(words_on_board, "*Assassin*")) =>
            /\ game_condition' = BLUE_WIN
            /\ pc' = "turn"
        /\ (single_team /\ Count(words_on_board, "*Assassin*") > 0) =>
            /\ game_condition = BLUE_WIN
            /\ game_condition' = BLUE_WIN
            /\ pc' = "done"
            /\ game_winner' = "B")]_vars

\* Red has just revealed the Assassin cell in a single-team game, after other
\* cells: the phase is BLUE_WIN at the head of the outer loop.
C14_Witness ==
    /\ single_team
    /\ pc = "turn"
    /\ Shown("Assassin") = 1
    /\ Accepted(words_on_board) >= 2
    /\ game_condition = BLUE_WIN

\* C15: the clue count does not limit the guesses of a turn. A guess that
\* reveals a word of the guessing team without completing its quota leads to
\* the keep_guessing question with the phase unchanged, and a TRUE answer leads
\* to the next guess under the same clue, however many guesses the turn has
\* seen; the phase changes only on a guess that reveals another category or
\* completes a quota, or on a FALSE answer to keep_guessing.
C15_CountDoesNotLimitGuesses ==
    [][(/\ (/\ pc = "guess"
             /\ Count(words_on_board', Marker(current_team))
                   > Count(words_on_board, Marker(current_team))
             /\ Count(words_on_board', Marker(current_team)) < Quota(current_team)) =>
               /\ pc' = "keep"
               /\ game_condition' = game_condition
        /\ (pc = "keep" /\ keep_guessing') =>
               /\ pc' = "guess"
               /\ game_condition' = game_condition
               /\ clue' = clue
               /\ clue_num' = clue_num
        /\ (game_condition' # game_condition) =>
               \/ pc = "keep" /\ ~keep_guessing'
               \/ /\ pc = "guess"
                  /\ Accepted(words_on_board') = Accepted(words_on_board) + 1
                  /\ \/ words_on_board'[guess_answer_index'] # Marker(current_team)
                     \/ Count(words_on_board', Marker(current_team)) = Quota(current_team))]_vars

\* More than clue_num + 1 guesses are on record since the last clue, every one
\* but the last continued, and the guesser is about to answer once more.
C15_Witness ==
    /\ pc = "guess"
    /\ TurnGuesses(move_history) > clue_num + 1
    /\ \A k \in (Len(move_history) - TurnGuesses(move_history) + 1) .. Len(move_history) :
          move_history[k][4] = TRUE
    /\ game_condition = TurnOf(current_team)

\* The cells whose value a step changes.
ChangedCells == {i \in Cells : words_on_board'[i] # words_on_board[i]}

\* Cell i was guessed: its word is in a guess entry of the history, or it is
\* the guess just accepted, about which keep_guessing is being asked.
Guessed(i) ==
    \/ \E k \in 1 .. Len(move_history) :
          /\ IsGuessEvent(move_history[k])
          /\ UpperStrip(move_history[k][2]) = WordPool[i]
    \/ pc = "keep" /\ guess_answer_index = i

\* C16: no step changes key_grid; a step changes either no cell or exactly
\* one, the cell of the guess just accepted, from its original word to the
\* marker of that cell's category in key_grid, the other 24 cells keeping
\* their value; and in every state each cell shows the marker of its category
\* in key_grid if it was guessed and its original word otherwise.
C16_RevealFrame ==
    /\ [](\A i \in Cells :
            words_on_board[i] = (IF Guessed(i) THEN Marker(key_grid[i]) ELSE WordPool[i]))
    /\ [][(/\ key_grid' = key_grid
           /\ Cardinality(ChangedCells) <= 1
           /\ (ChangedCells # {}) =>
                 /\ pc = "guess"
                 /\ ChangedCells = {guess_answer_index'}
                 /\ UpperStrip(guess_answer') = WordPool[guess_answer_index']
                 /\ words_on_board[guess_answer_index'] = WordPool[guess_answer_index']
                 /\ words_on_board'[guess_answer_index'] = Marker(key_grid[guess_answer_index'])
           /\ (pc = "guess" /\ pc' \in {"keep", "turn"} /\ ~IsNoGuess(guess_answer')) =>
                 Cardinality(ChangedCells) = 1)]_vars

\* Cells of three categories are revealed, each showing the marker of its
\* category in key_grid, and the other cells still show their words.
C16_Witness ==
    /\ Shown("Red") >= 1
    /\ Shown("Blue") >= 1
    /\ Shown("Civilian") >= 1
    /\ \A i \in Cells : words_on_board[i] \in Markers => words_on_board[i] = Marker(key_grid[i])
    /\ \E i \in Cells : words_on_board[i] = WordPool[i]

AllRedShown == Shown("Red") = num_red_words
AllBlueShown == Shown("Blue") = num_blue_words
AssassinShown == Shown("Assassin") = num_assassin_words

\* C17: in every state the phase is RED_WIN or BLUE_WIN exactly when all nine
\* Red cells are revealed, or all eight Blue cells, or the Assassin cell; in
\* such a phase exactly one of the three is the case; the phase is RED_WIN
\* exactly when all Red cells are revealed or the Assassin cell was revealed by
\* a guess of Blue, and BLUE_WIN exactly when all Blue cells are revealed or
\* the Assassin cell was revealed by a guess of Red.
C17_WinCharacterisation ==
    /\ (game_condition \in WinPhases) <=> (AllRedShown \/ AllBlueShown \/ AssassinShown)
    /\ (game_condition \in WinPhases) =>
          Cardinality({c \in {"Red", "Blue", "Assassin"} : Shown(c) = Quota(c)}) = 1
    /\ (game_condition = RED_WIN) <=> (AllRedShown \/ (AssassinShown /\ current_team = "Blue"))
    /\ (game_condition = BLUE_WIN) <=> (AllBlueShown \/ (AssassinShown /\ current_team = "Red"))

\* Red revealed the last Blue word, with Red words and Civilian words revealed
\* before it: Blue is reported as winner and the Assassin cell is unrevealed.
C17_Witness ==
    /\ pc = "done"
    /\ game_winner = "B"
    /\ current_team = "Red"
    /\ AllBlueShown
    /\ Shown("Red") >= 1
    /\ Shown("Civilian") >= 1
    /\ ~AssassinShown

\* The most guesses a game can accept: every Red, Blue and Civilian word but
\* the last Red and the last Blue one, and one reveal that ends the game.
MostGuesses ==
    (num_red_words - 1) + (num_blue_words - 1) + num_civilian_words + 1

\* A pass of the guess loop in which _accept_guess was called.
AcceptStep ==
    /\ pc = "guess"
    /\ pc' \in {"keep", "turn"}
    /\ ~IsNoGuess(guess_answer')

\* C18: every accepted guess reveals a cell that was unrevealed before it, so
\* that the accepted guesses are as many as the revealed cells, and these are
\* never more than 23; and in a game whose guessers never give a no-guess
\* answer every clue is followed by an accepted guess, no more than 23 clues
\* are given and a winner is reported.
C18_BoundedGameLength ==
    /\ [](Accepted(words_on_board) <= MostGuesses)
    /\ [][(AcceptStep =>
             /\ words_on_board[guess_answer_index'] \notin Markers
             /\ words_on_board'[guess_answer_index'] \in Markers
             /\ Accepted(words_on_board') = Accepted(words_on_board) + 1)]_vars
    /\ [](turn_counter <= MostGuesses)
    /\ [](turn_counter <= Accepted(words_on_board) + 1)
    /\ [](game_condition \in WinPhases => turn_counter <= Accepted(words_on_board))
    /\ <>WinnerReported

\* A game won with the 23rd guess under the 23rd clue: every clue was
\* followed by one guess, and all words but the last Red one and the Assassin
\* are revealed.
C18_Witness ==
    /\ pc = "done"
    /\ turn_counter = MostGuesses
    /\ Accepted(words_on_board) = MostGuesses
    /\ game_condition = BLUE_WIN
    /\ Shown("Red") = num_red_words - 1
    /\ Shown("Civilian") = num_civilian_words

\* The positions of the guess entries of a history, and the number of them
\* recorded with the marker of category cat.
GuessEntries(history) == {k \in 1 .. Len(history) : IsGuessEvent(history[k])}

Recorded(history, cat) ==
    Cardinality({k \in GuessEntries(history) : history[k][3] = Marker(cat)})

\* Every guess entry names a word of the board and records the marker of that
\* word's category in key_grid, and no two guess entries name the same word.
GuessEntriesTrue ==
    /\ \A k \in GuessEntries(move_history) :
          \E i \in Cells :
              /\ UpperStrip(move_history[k][2]) = WordPool[i]
              /\ move_history[k][3] = Marker(key_grid[i])
    /\ \A k, l \in GuessEntries(move_history) :
          k # l => UpperStrip(move_history[k][2]) # UpperStrip(move_history[l][2])

\* C19 as claimed: in every state, for each category, as many cells show the
\* category's marker as there are guess entries recorded with it; every guess
\* entry records the category of its word's cell in key_grid; no word is in
\* two guess entries.
C19_BoardMatchesHistory ==
    /\ \A cat \in Categories : Shown(cat) = Recorded(move_history, cat)
    /\ GuessEntriesTrue

\* C19, amended: the same, except that during the keep_guessing call the
\* guess just accepted is on the board and not yet in the history, so that
\* the board shows one more marker of the guessing team than is recorded.
C19_BoardMatchesHistoryButInKeepGuessing ==
    /\ \A cat \in Categories :
          Shown(cat) = Recorded(move_history, cat)
                          + (IF pc = "keep" /\ cat = current_team THEN 1 ELSE 0)
    /\ GuessEntriesTrue

\* Blue's guesser is asked whether to go on after revealing a Blue word: one
\* more Blue marker is on the board than in the history, which holds guesses
\* of Red with other results.
C19_Witness ==
    /\ pc = "keep"
    /\ current_team = "Blue"
    /\ Shown("Blue") = Recorded(move_history, "Blue") + 1
    /\ Recorded(move_history, "Red") >= 1
    /\ Recorded(move_history, "Civilian") + Recorded(move_history, "Blue") >= 1

\* The team an entry of the history is of.
TeamOfEntry(e) == IF e[1] \in {"Red_Codemaster", "Red_Guesser"} THEN "Red" ELSE "Blue"

\* The position of the last clue entry before position k.
ClueBefore(history, k) ==
    CHOOSE j \in 1 .. (k - 1) :
        /\ IsClueEvent(history[j])
        /\ \A m \in (j + 1) .. (k - 1) : IsGuessEvent(history[m])

\* C20: the first entry of a history that is not empty is a clue of Red;
\* every guess entry is a guesser's, comes after a clue and is of the team of
\* the last clue before it; a guess entry recorded with continued = TRUE
\* records the marker of the guessing team; a guess entry recorded with
\* continued = FALSE is the last entry or is followed by a clue entry.
C20_HistoryWellFormed ==
    /\ Len(move_history) > 0 =>
          /\ IsClueEvent(move_history[1])
          /\ move_history[1][1] = "Red_Codemaster"
    /\ \A k \in GuessEntries(move_history) :
          /\ move_history[k][1] \in {"Red_Guesser", "Blue_Guesser"}
          /\ \E j \in 1 .. (k - 1) : IsClueEvent(move_history[j])
          /\ move_history[ClueBefore(move_history, k)][1]
                \in {"Red_Codemaster", "Blue_Codemaster"}
          /\ TeamOfEntry(move_history[k])
                = TeamOfEntry(move_history[ClueBefore(move_history, k)])
          /\ move_history[k][4] = TRUE =>
                move_history[k][3] = Marker(TeamOfEntry(move_history[k]))
          /\ move_history[k][4] = FALSE =>
                \/ k = Len(move_history)
                \/ IsClueEvent(move_history[k + 1])

\* Red continued after a Red word and then stopped, and Blue, after its clue,
\* continued after a Blue word.
C20_Witness ==
    /\ Len(move_history) >= 5
    /\ \E k \in GuessEntries(move_history) :
          /\ k + 2 <= Len(move_history)
          /\ move_history[k][1] = "Red_Guesser"
          /\ move_history[k][4] = FALSE
          /\ move_history[k + 1][1] = "Blue_Codemaster"
          /\ move_history[k + 2] = GuessEvent("Blue", move_history[k + 2][2], "*Blue*", TRUE)
    /\ \E k \in GuessEntries(move_history) :
          move_history[k] = GuessEvent("Red", move_history[k][2], "*Red*", TRUE)

====
